---- MODULE Spec2Model ----
(***************************************************************************)
(* Model of utils/audioPlayer.ts: the base64 decoder, the raw-PCM sample   *)
(* converter and the AudioPlayer playback controller, together with the    *)
(* Web Audio source nodes and the browser event loop that drive it.        *)
(***************************************************************************)
EXTENDS Integers, Sequences, FiniteSets, TLC

(***************************************************************************)
(* Bounds of the model.                                                    *)
(***************************************************************************)
MaxSessions == 2     \* source nodes one controller creates
MaxLoads == 2        \* load() invocations on one controller
MaxConsole == 1      \* console.error lines kept
MaxTextLen == 4      \* characters of an encoded text given to decode()
MaxBytes == 8        \* bytes of a payload given to decodeAudioData()
MaxPlayers == 2      \* controllers one ResultDisplay constructs
MaxUploads == 2      \* onImageUpload invocations one ImageUploader delivers
MaxAttempts == 3     \* getUserMedia calls of one ImageUploader
MaxStreams == 2      \* camera streams one ImageUploader acquires

(***************************************************************************)
(* decode(): atob, the forgiving-base64 decode of the HTML standard.       *)
(* A string is a sequence of one-character strings.                        *)
(***************************************************************************)
B64 ==
  << "A","B","C","D","E","F","G","H","I","J","K","L","M","N","O","P",
     "Q","R","S","T","U","V","W","X","Y","Z","a","b","c","d","e","f",
     "g","h","i","j","k","l","m","n","o","p","q","r","s","t","u","v",
     "w","x","y","z","0","1","2","3","4","5","6","7","8","9","+","/" >>

B64Chars == { B64[i] : i \in 1..64 }

Whitespace == { " ", "\n", "\t", "\r", "\f" }

B64Index(c) == (CHOOSE i \in 1..64 : B64[i] = c) - 1

IsNotWhitespace(c) == c \notin Whitespace

StripWhitespace(s) == SelectSeq(s, IsNotWhitespace)

StripPadding(s) ==
  IF Len(s) > 0 /\ Len(s) % 4 = 0 /\ s[Len(s)] = "="
  THEN IF s[Len(s) - 1] = "="
       THEN SubSeq(s, 1, Len(s) - 2)
       ELSE SubSeq(s, 1, Len(s) - 1)
  ELSE s

\* the bytes of the k-th complete group of four characters (k from 0)
QuadBytes(s, k) ==
  LET n == B64Index(s[4*k + 1]) * 262144 + B64Index(s[4*k + 2]) * 4096
           + B64Index(s[4*k + 3]) * 64 + B64Index(s[4*k + 4])
  IN  << n \div 65536, (n \div 256) % 256, n % 256 >>

\* a decoder that ignores an incomplete trailing group
TailBytes_ignored(s) == << >>

\* the bytes of the trailing two or three characters: the low bits are dropped
TailBytes(s) ==
  LET q == Len(s) \div 4
      r == Len(s) % 4
  IN  IF r = 2
      THEN << (B64Index(s[4*q + 1]) * 64 + B64Index(s[4*q + 2])) \div 16 >>
      ELSE IF r = 3
      THEN LET v == (B64Index(s[4*q + 1]) * 4096 + B64Index(s[4*q + 2]) * 64
                     + B64Index(s[4*q + 3])) \div 4
           IN  << v \div 256, v % 256 >>
      ELSE << >>

RECURSIVE QuadsFrom(_, _)
QuadsFrom(s, k) ==
  IF k >= Len(s) \div 4 THEN TailBytes(s)
  ELSE QuadBytes(s, k) \o QuadsFrom(s, k + 1)

atob(base64) ==
  LET s == StripPadding(StripWhitespace(base64))
  IN  IF Len(s) % 4 = 1 \/ \E i \in 1..Len(s) : s[i] \notin B64Chars
      THEN [ok |-> FALSE, error |-> "InvalidCharacterError", bytes |-> << >>]
      ELSE [ok |-> TRUE, error |-> "none", bytes |-> QuadsFrom(s, 0)]

\* bytes[i] = binaryString.charCodeAt(i): atob yields code units 0..255
decode(base64) == atob(base64)

(***************************************************************************)
(* decodeAudioData(): Int16Array view, createBuffer, de-interleaving.      *)
(* A float sample is kept as the exact quotient num/den: an int16 divided  *)
(* by a power of two is representable in a Float32Array without rounding.  *)
(***************************************************************************)
SampleDivisor == 32768

\* the int16 read with the bytes in the other order
Int16At_bigEndian(data, i) ==
  LET u == 256 * data[2*i + 1] + data[2*i + 2]
  IN  IF u >= 32768 THEN u - 65536 ELSE u

\* element i (from 0) of new Int16Array(data.buffer), little-endian
Int16At(data, i) ==
  LET u == data[2*i + 1] + 256 * data[2*i + 2]
  IN  IF u >= 32768 THEN u - 65536 ELSE u

Int16Array(data) ==
  IF Len(data) % 2 # 0
  THEN [ok |-> FALSE, error |-> "RangeError", samples |-> << >>]
  ELSE [ok |-> TRUE, error |-> "none",
        samples |-> [i \in 1..(Len(data) \div 2) |-> Int16At(data, i - 1)]]

\* a division by the largest positive sample instead
normalize_byMax(sample) == [num |-> sample, den |-> 32767]

\* dataInt16[...] / 32768.0
normalize(sample) == [num |-> sample, den |-> SampleDivisor]

\* a frame count taken from the bytes of a frame instead of its samples
frameCountOf_perByte(length, numChannels) == length \div (2 * numChannels)

\* const frameCount = dataInt16.length / numChannels, as createBuffer takes
\* it: the argument is an unsigned long, so a fractional quotient is truncated
frameCountOf(length, numChannels) == length \div numChannels

NullBuffer == [id |-> 0, numberOfChannels |-> 0, length |-> 0, channelData |-> << >>]

\* id is the identity of the AudioBuffer object that createBuffer returns
decodeAudioData(data, numChannels, id) ==
  LET dataInt16 == Int16Array(data)
      frameCount == frameCountOf(Len(dataInt16.samples), numChannels)
  IN  IF ~dataInt16.ok
      THEN [ok |-> FALSE, error |-> dataInt16.error, buffer |-> NullBuffer]
      ELSE IF frameCount = 0
      THEN [ok |-> FALSE, error |-> "NotSupportedError", buffer |-> NullBuffer]
      ELSE [ok |-> TRUE, error |-> "none",
            buffer |-> [id |-> id, numberOfChannels |-> numChannels,
                        length |-> frameCount,
                        channelData |->
                          [channel \in 1..numChannels |->
                            [i \in 1..frameCount |->
                              normalize(dataInt16.samples[
                                          (i - 1) * numChannels + channel])]]]]

(***************************************************************************)
(* The payloads a controller is constructed with.                          *)
(***************************************************************************)
Payloads ==
  { << "A","I","D","/","f","w","=","=" >>,   \* bytes 00 80 FF 7F
    << "A","A","=","=" >>,                   \* one byte: not a whole sample
    << "A","!","D","/" >>,                   \* a character outside the alphabet
    << >> }                                  \* the empty string

Handlers == { "h1", "h2" }

(***************************************************************************)
(* State of one AudioPlayer and of its environment.                        *)
(***************************************************************************)
VARIABLES
  base64Audio,      \* constructor argument
  audioBuffer,      \* this.audioBuffer, NullBuffer for null
  sourceNode,       \* this.sourceNode: index into nodes, 0 for null
  onEndedCallback,  \* this.onEndedCallback, "null" or a handler
  nodes,            \* the AudioBufferSourceNodes created so far
  loads,            \* outcome of every load() promise
  microtasks,       \* suspended load() continuations, in queue order
  console,          \* number of console.error lines
  invoked,          \* history: callback invocations, session and handler
  stopped,          \* history: sessions that a stop() call terminated
  superseded,       \* history: sessions that a play() call replaced
  atPlay,           \* history: the callback registered at the latest play()
  last,             \* history: the step just taken
  pcmData,          \* argument of decodeAudioData: the raw bytes
  pcmChannels,      \* argument of decodeAudioData: the channel count
  out,              \* the function applied last and what it returned
  isPlaying,        \* ResultDisplay: useState(false)
  isLoadingAudio,   \* ResultDisplay: useState(true)
  isMounted,        \* ResultDisplay: the flag of the effect that uses the controller
  shown,            \* ResultDisplay: the state values of the latest render
  phase,            \* ResultDisplay: position of the effect of the controller
  players,          \* ResultDisplay: controllers constructed so far
  step,             \* App: useState<AppStep>('UPLOAD')
  processingMessage,\* App: useState('')
  landmarkInfo,     \* App: the upload whose result is shown, 0 for null
  error,            \* App: "null" or the message
  imageUrl,         \* App: the upload whose object URL is held, 0 for null
  uploads,          \* App: the handleImageUpload invocations and their positions
  blobs,            \* ImageUploader: canvas.toBlob callbacks not yet delivered
  event,            \* history: the App step just taken
  mode,             \* ImageUploader: useState('camera')
  facingMode,       \* ImageUploader: useState('environment')
  cameraError,      \* ImageUploader: "null" or a message
  stream,           \* ImageUploader: the stream in state, 0 for null
  effectStream,     \* ImageUploader: the stream the current effect closed over
  uploaderMounted,  \* ImageUploader: the component is mounted
  streams,          \* the MediaStreams getUserMedia handed out
  attempts,         \* the getUserMedia calls and their outcome
  tries             \* history: getUserMedia calls since camera mode was entered

\* the arguments and the result of the converter applied on its own
pcm == << pcmData, pcmChannels, out >>

\* the state of the component that owns the controller
display == << isPlaying, isLoadingAudio, isMounted, shown, phase, players >>

\* the state of App and of the uploads in flight
app == << step, processingMessage, landmarkInfo, error, imageUrl, uploads,
          blobs, event >>

\* the state of ImageUploader and of the camera
camera == << mode, facingMode, cameraError, stream, effectStream,
             uploaderMounted, streams, attempts, tries >>

\* the state of the user interface around the controller
ui == << display, app, camera >>

vars == << base64Audio, audioBuffer, sourceNode, onEndedCallback, nodes,
           loads, microtasks, console, invoked, stopped, superseded, atPlay,
           last, pcmData, pcmChannels, out, ui >>

\* the controller on its own, owned by no component
NoDisplay ==
  /\ isPlaying = FALSE
  /\ isLoadingAudio = TRUE
  /\ isMounted = FALSE
  /\ shown = [isPlaying |-> FALSE, isLoadingAudio |-> TRUE]
  /\ phase = "none"
  /\ players = 0

\* App before any upload
InitAppState ==
  /\ step = "UPLOAD"
  /\ processingMessage = ""
  /\ landmarkInfo = 0
  /\ error = "null"
  /\ imageUrl = 0
  /\ uploads = << >>
  /\ blobs = 0
  /\ event = [op |-> "new", upload |-> 0]

\* ImageUploader as useState leaves it, before its effect has run
NoCamera ==
  /\ mode = "camera"
  /\ facingMode = "environment"
  /\ cameraError = "null"
  /\ stream = 0
  /\ effectStream = 0
  /\ uploaderMounted = FALSE
  /\ streams = << >>
  /\ attempts = << >>
  /\ tries = [entry |-> 0, press |-> 0]

NoUi == NoDisplay /\ InitAppState /\ NoCamera

NoOutput == [fn |-> "none"]

\* the controller state of the state machine
State ==
  IF audioBuffer = NullBuffer THEN "Unloaded"
  ELSE IF sourceNode # 0 THEN "Playing"
  ELSE "Loaded"

\* the number of AudioBuffers built so far
Decoded == Cardinality({ i \in 1..Len(loads) : loads[i].buffer # 0 })

Init ==
  /\ base64Audio \in Payloads
  /\ audioBuffer = NullBuffer
  /\ sourceNode = 0
  /\ onEndedCallback = "null"
  /\ nodes = << >>
  /\ loads = << >>
  /\ microtasks = << >>
  /\ console = 0
  /\ invoked = << >>
  /\ stopped = { }
  /\ superseded = { }
  /\ atPlay = "null"
  /\ pcmData = << >>
  /\ pcmChannels = 1
  /\ out = NoOutput
  /\ last = [op |-> "new", pre |-> "Unloaded", active |-> 0, session |-> 0,
             ret |-> "none"]
  /\ NoUi

\* the record of a step: the operation, the controller state and the active
\* session it was taken in, the session or load it concerns and what the
\* caller got back
Step(op, session, ret) ==
  [op |-> op, pre |-> State, active |-> sourceNode, session |-> session,
   ret |-> ret]

(***************************************************************************)
(* load()                                                                  *)
(***************************************************************************)
\* load() without the early return
load_cached_never(buffer) == FALSE

\* load() that returns early once a load has been attempted
load_cached_attempted(buffer) == buffer # NullBuffer \/ Len(loads) > 0

\* if (this.audioBuffer) return;
load_cached(buffer) == buffer # NullBuffer

\* this.audioBuffer = await ...: the assignment happens only when the
\* awaited promise is fulfilled, a rejection is rethrown before it
load_assign(buffer, result) == IF result.ok THEN result.buffer ELSE buffer

\* load() up to its await: the promise it returns is settled at once on the
\* early return and when decode() throws, and is left pending otherwise
load ==
  /\ Len(loads) < MaxLoads
  /\ IF load_cached(audioBuffer)
     THEN /\ loads' = Append(loads, [outcome |-> "resolved", error |-> "none",
                                     buffer |-> 0])
          /\ UNCHANGED microtasks
     ELSE LET decoded == decode(base64Audio)
              result == decodeAudioData(decoded.bytes, 1, Decoded + 1)
          IN  IF ~decoded.ok
              THEN /\ loads' = Append(loads, [outcome |-> "rejected",
                                              error |-> decoded.error,
                                              buffer |-> 0])
                   /\ UNCHANGED microtasks
              ELSE /\ loads' = Append(loads, [outcome |-> "pending",
                                              error |-> "none",
                                              buffer |-> result.buffer.id])
                   /\ microtasks' = Append(microtasks,
                                           [load |-> Len(loads) + 1,
                                            result |-> result])
  /\ last' = Step("load", Len(loads) + 1, "promise")
  /\ UNCHANGED << pcm, atPlay, base64Audio, audioBuffer, sourceNode, onEndedCallback,
                  nodes, console, invoked, stopped, superseded >>

\* load() after its await, run from the microtask queue
loadResume ==
  /\ microtasks # << >>
  /\ LET m == Head(microtasks)
     IN  /\ audioBuffer' = load_assign(audioBuffer, m.result)
         /\ loads' = [loads EXCEPT ![m.load] =
                        [@ EXCEPT !.outcome = IF m.result.ok THEN "resolved"
                                              ELSE "rejected",
                                  !.error = m.result.error]]
         /\ last' = Step("loadResume", m.load, "none")
  /\ microtasks' = Tail(microtasks)
  /\ UNCHANGED << pcm, atPlay, base64Audio, sourceNode, onEndedCallback, nodes, console,
                  invoked, stopped, superseded >>

(***************************************************************************)
(* stop() and play()                                                       *)
(***************************************************************************)
\* stop() that leaves the node's onended handler attached
stopNode_keepsHandler(ns, sn) ==
  [ns EXCEPT ![sn] = [@ EXCEPT !.playback = IF @ = "playing" THEN "stopped"
                                            ELSE @,
                               !.ended = IF @ = "none" THEN "queued" ELSE @]]

\* stop() that detaches the handler only from a node that is still playing
stopNode_lateDetach(ns, sn) ==
  [ns EXCEPT ![sn] = [@ EXCEPT !.onended = IF ns[sn].playback = "playing"
                                           THEN FALSE ELSE @,
                               !.playback = IF @ = "playing" THEN "stopped"
                                            ELSE @,
                               !.ended = IF @ = "none" THEN "queued" ELSE @]]

\* the body of stop() on the node this.sourceNode: onended = null, then
\* AudioScheduledSourceNode.stop(), which queues the node's ended event
\* unless the node has already finished
stopNode(ns, sn) ==
  [ns EXCEPT ![sn] = [@ EXCEPT !.onended = FALSE,
                               !.playback = IF @ = "playing" THEN "stopped"
                                            ELSE @,
                               !.ended = IF @ = "none" THEN "queued" ELSE @]]

\* if (this.sourceNode) { ... }
stop_nodes(ns, sn) == IF sn # 0 THEN stopNode(ns, sn) ELSE ns

\* stop() that also releases the decoded buffer
stop_unloads ==
  /\ nodes' = stop_nodes(nodes, sourceNode)
  /\ sourceNode' = 0
  /\ audioBuffer' = NullBuffer
  /\ stopped' = stopped \cup ({ sourceNode } \ { 0 })
  /\ last' = Step("stop", sourceNode, "undefined")
  /\ UNCHANGED << pcm, atPlay, base64Audio, onEndedCallback, loads, microtasks, console,
                  invoked, superseded >>

\* stop() that reports the end of playback through the callback
stop_notifies ==
  /\ nodes' = stop_nodes(nodes, sourceNode)
  /\ sourceNode' = 0
  /\ invoked' = invoked \o (IF onEndedCallback # "null"
                             THEN << [session |-> sourceNode,
                                      handler |-> onEndedCallback] >>
                             ELSE << >>)
  /\ stopped' = stopped \cup ({ sourceNode } \ { 0 })
  /\ last' = Step("stop", sourceNode, "undefined")
  /\ UNCHANGED << pcm, atPlay, base64Audio, audioBuffer, onEndedCallback,
                  loads, microtasks, console, superseded >>

stop ==
  /\ nodes' = stop_nodes(nodes, sourceNode)
  /\ sourceNode' = 0
  /\ stopped' = stopped \cup ({ sourceNode } \ { 0 })
  /\ last' = Step("stop", sourceNode, "undefined")
  /\ UNCHANGED << pcm, atPlay, base64Audio, audioBuffer, onEndedCallback, loads,
                  microtasks, console, invoked, superseded >>

\* play() that overwrites this.sourceNode without stopping the old node
play_supersede_overwrite(ns, sn) == ns

\* play() that stops the old node but leaves its handler attached
play_supersede_noDetach(ns, sn) ==
  IF sn # 0 THEN stopNode_keepsHandler(ns, sn) ELSE ns

\* if (this.sourceNode) { this.stop(); }
play_supersede(ns, sn) == IF sn # 0 THEN stopNode(ns, sn) ELSE ns

\* play() without the not-loaded check
play_notLoaded_unchecked(buffer) == FALSE

\* if (!this.audioBuffer) { console.error(...); return; }
play_notLoaded(buffer) == buffer = NullBuffer

\* createBufferSource(), buffer, connect, onended = handler, start()
createBufferSource(buffer) ==
  [buffer |-> buffer.id, onended |-> TRUE,
   playback |-> "playing", ended |-> "none"]

play ==
  /\ IF play_notLoaded(audioBuffer)
     THEN /\ console < MaxConsole
          /\ console' = console + 1
          /\ last' = Step("play", 0, "undefined")
          /\ UNCHANGED << sourceNode, nodes, superseded, atPlay >>
     ELSE /\ Len(nodes) < MaxSessions
          /\ nodes' = Append(play_supersede(nodes, sourceNode),
                             createBufferSource(audioBuffer))
          /\ sourceNode' = Len(nodes) + 1
          /\ superseded' = superseded \cup ({ sourceNode } \ { 0 })
          /\ atPlay' = onEndedCallback
          /\ last' = Step("play", Len(nodes) + 1, "undefined")
          /\ UNCHANGED console
  /\ UNCHANGED << pcm, base64Audio, audioBuffer, onEndedCallback, loads,
                  microtasks, invoked, stopped >>

(***************************************************************************)
(* onEnded(callback)                                                       *)
(***************************************************************************)
onEnded(callback) ==
  /\ onEndedCallback' = callback
  /\ last' = Step("onEnded", 0, "undefined")
  /\ UNCHANGED << pcm, atPlay, base64Audio, audioBuffer, sourceNode, nodes, loads,
                  microtasks, console, invoked, stopped, superseded >>

(***************************************************************************)
(* The audio output: a started node plays its buffer to the end, which     *)
(* queues its ended event; the event loop dispatches the event as a task,  *)
(* after the microtask queue has drained, to the node's onended handler.   *)
(***************************************************************************)
exhaust(n) ==
  /\ nodes[n].playback = "playing"
  /\ nodes' = [nodes EXCEPT ![n] = [@ EXCEPT !.playback = "finished",
                                             !.ended = "queued"]]
  /\ last' = Step("exhaust", n, "none")
  /\ UNCHANGED << pcm, atPlay, base64Audio, audioBuffer, sourceNode, onEndedCallback,
                  loads, microtasks, console, invoked, stopped, superseded >>

\* a handler that calls the callback that was registered when play() ran
onended_calls_captured(callback, n) ==
  IF atPlay # "null" THEN << [session |-> n, handler |-> atPlay] >>
  ELSE << >>

\* a handler that clears the session and forgets the callback
onended_calls_dropped(callback, n) == << >>

\* if (this.onEndedCallback) { this.onEndedCallback(); }
onended_calls(callback, n) ==
  IF callback # "null" THEN << [session |-> n, handler |-> callback] >>
  ELSE << >>

\* this.sourceNode = null;
onended_sourceNode(sn, n) == 0

dispatchEnded(n) ==
  /\ nodes[n].ended = "queued"
  /\ microtasks = << >>
  /\ nodes' = [nodes EXCEPT ![n].ended = "dispatched"]
  /\ IF nodes[n].onended
     THEN /\ sourceNode' = onended_sourceNode(sourceNode, n)
          /\ invoked' = invoked \o onended_calls(onEndedCallback, n)
          /\ last' = Step("ended", n, "handled")
     ELSE /\ last' = Step("ended", n, "none")
          /\ UNCHANGED << sourceNode, invoked >>
  /\ UNCHANGED << pcm, atPlay, base64Audio, audioBuffer, onEndedCallback, loads,
                  microtasks, console, stopped, superseded >>

Next ==
  \/ load /\ UNCHANGED ui
  \/ loadResume /\ UNCHANGED ui
  \/ play /\ UNCHANGED ui
  \/ stop /\ UNCHANGED ui
  \/ \E callback \in Handlers : onEnded(callback) /\ UNCHANGED ui
  \/ \E n \in 1..Len(nodes) : exhaust(n) /\ UNCHANGED ui
  \/ \E n \in 1..Len(nodes) : dispatchEnded(n) /\ UNCHANGED ui

Spec == Init /\ [][Next]_vars

TypeOK ==
  /\ sourceNode \in 0..Len(nodes)
  /\ onEndedCallback \in Handlers \cup { "null" }
  /\ Len(nodes) <= MaxSessions
  /\ Len(loads) <= MaxLoads

(***************************************************************************)
(* The decoder and the converter on their own: decode() and                *)
(* decodeAudioData() applied to inputs drawn from bounded sets, and load() *)
(* run on each encoded text.  The encoder is the standard base64 encoding  *)
(* with padding, the one that produced the payload.                        *)
(***************************************************************************)
\* the four characters of the k-th complete group of three bytes (k from 0)
EncodeTriple(b, k) ==
  LET n == b[3*k + 1] * 65536 + b[3*k + 2] * 256 + b[3*k + 3]
  IN  << B64[(n \div 262144) + 1], B64[((n \div 4096) % 64) + 1],
         B64[((n \div 64) % 64) + 1], B64[(n % 64) + 1] >>

\* the padded group of the trailing one or two bytes
EncodeTail(b) ==
  LET q == Len(b) \div 3
      r == Len(b) % 3
  IN  IF r = 1
      THEN LET n == b[3*q + 1] * 16
           IN  << B64[(n \div 64) + 1], B64[(n % 64) + 1], "=", "=" >>
      ELSE IF r = 2
      THEN LET n == (b[3*q + 1] * 256 + b[3*q + 2]) * 4
           IN  << B64[(n \div 4096) + 1], B64[((n \div 64) % 64) + 1],
                  B64[(n % 64) + 1], "=" >>
      ELSE << >>

RECURSIVE TriplesFrom(_, _)
TriplesFrom(b, k) ==
  IF k >= Len(b) \div 3 THEN EncodeTail(b)
  ELSE EncodeTriple(b, k) \o TriplesFrom(b, k + 1)

encode(b) == TriplesFrom(b, 0)

TextChars == { "A", "B", "Q", "/", "=", " ", "!" }

ByteValues == { 0, 128, 255 }

Channels == { 1, 2 }

Texts == UNION { [1..n -> TextChars] : n \in 0..MaxTextLen }

ByteSeqs == UNION { [1..n -> ByteValues] : n \in 0..MaxBytes }

\* every 16-bit sample, as its two bytes
SamplePairs == { << b0, b1 >> : b0 \in 0..255, b1 \in 0..255 }

\* the payload 00 80 FF 7F
ExamplePayload == << 0, 128, 255, 127 >>

InitCodec ==
  /\ \/ /\ base64Audio \in Texts
        /\ pcmData = << >>
        /\ pcmChannels = 1
     \/ /\ base64Audio = << >>
        /\ pcmData \in ByteSeqs
        /\ pcmChannels \in Channels
     \/ /\ base64Audio = << >>
        /\ pcmData \in SamplePairs \cup { ExamplePayload }
        /\ pcmChannels = 1
  /\ audioBuffer = NullBuffer
  /\ sourceNode = 0
  /\ onEndedCallback = "null"
  /\ nodes = << >>
  /\ loads = << >>
  /\ microtasks = << >>
  /\ console = 0
  /\ invoked = << >>
  /\ stopped = { }
  /\ superseded = { }
  /\ atPlay = "null"
  /\ out = NoOutput
  /\ last = [op |-> "new", pre |-> "Unloaded", active |-> 0, session |-> 0,
             ret |-> "none"]
  /\ NoUi

player == << audioBuffer, sourceNode, onEndedCallback, nodes, loads,
            microtasks, console, invoked, stopped, superseded, atPlay, last >>

\* decode(base64Audio)
callDecode ==
  /\ pcmData = << >> /\ loads = << >>
  /\ out.fn # "decode"
  /\ out' = [fn |-> "decode", value |-> decode(base64Audio)]
  /\ UNCHANGED << base64Audio, pcmData, pcmChannels, player, ui >>

\* encode(decode(base64Audio))
callEncodeDecode ==
  /\ pcmData = << >> /\ loads = << >>
  /\ out.fn # "encode.decode"
  /\ LET decoded == decode(base64Audio)
     IN  out' = [fn |-> "encode.decode",
                 value |-> [ok |-> decoded.ok,
                            text |-> IF decoded.ok THEN encode(decoded.bytes)
                                     ELSE << >>]]
  /\ UNCHANGED << base64Audio, pcmData, pcmChannels, player, ui >>

\* decode(encode(pcmData))
callDecodeEncode ==
  /\ base64Audio = << >> /\ loads = << >>
  /\ out.fn # "decode.encode"
  /\ out' = [fn |-> "decode.encode", value |-> decode(encode(pcmData))]
  /\ UNCHANGED << base64Audio, pcmData, pcmChannels, player, ui >>

\* await decodeAudioData(pcmData, ctx, 24000, pcmChannels)
callDecodeAudioData ==
  /\ base64Audio = << >> /\ loads = << >>
  /\ out.fn # "decodeAudioData"
  /\ out' = [fn |-> "decodeAudioData",
             value |-> decodeAudioData(pcmData, pcmChannels, 1)]
  /\ UNCHANGED << base64Audio, pcmData, pcmChannels, player, ui >>

NextCodec ==
  \/ callDecode
  \/ callEncodeDecode
  \/ callDecodeEncode
  \/ callDecodeAudioData
  \/ (pcmData = << >> /\ out = NoOutput /\ load /\ UNCHANGED ui)
  \/ loadResume /\ UNCHANGED ui

SpecCodec == InitCodec /\ [][NextCodec]_vars

(***************************************************************************)
(* ResultDisplay: the component that owns the controller.  It constructs   *)
(* one controller per audio payload, runs load() and registers its         *)
(* callback in an effect, and stops the controller in the effect's         *)
(* cleanup, which runs when the component unmounts and when the payload    *)
(* changes.  The state values isPlaying and isLoadingAudio belong to the   *)
(* component and outlive a change of payload; an event handler reads the   *)
(* values of the latest render.                                            *)
(***************************************************************************)
\* the callback the effect registers: () => { if (isMounted) setIsPlaying(false) }
DisplayHandler == "h1"

\* const audioPlayer = useMemo(() => new AudioPlayer(info.audioBase64), ...)
\* of the first render
InitDisplay ==
  /\ base64Audio \in Payloads
  /\ audioBuffer = NullBuffer
  /\ sourceNode = 0
  /\ onEndedCallback = "null"
  /\ nodes = << >>
  /\ loads = << >>
  /\ microtasks = << >>
  /\ console = 0
  /\ invoked = << >>
  /\ stopped = { }
  /\ superseded = { }
  /\ atPlay = "null"
  /\ pcmData = << >>
  /\ pcmChannels = 1
  /\ out = NoOutput
  /\ last = [op |-> "new", pre |-> "Unloaded", active |-> 0, session |-> 0,
             ret |-> "none"]
  /\ isPlaying = FALSE
  /\ isLoadingAudio = TRUE
  /\ isMounted = TRUE
  /\ shown = [isPlaying |-> FALSE, isLoadingAudio |-> TRUE]
  /\ phase = "effect"
  /\ players = 1
  /\ InitAppState
  /\ NoCamera

\* the effect, first half: loadAudio() runs load() up to its await
effectLoad ==
  /\ phase = "effect"
  /\ load
  /\ phase' = "register"
  /\ UNCHANGED << isPlaying, isLoadingAudio, isMounted, shown, players, app, camera >>

\* the effect, second half: audioPlayer.onEnded(() => ...)
effectOnEnded ==
  /\ phase = "register"
  /\ onEnded(DisplayHandler)
  /\ phase' = "idle"
  /\ UNCHANGED << isPlaying, isLoadingAudio, isMounted, shown, players, app, camera >>

\* loadAudio() after its await: load() has resumed before it in the same
\* microtask checkpoint; a rejected load() leaves loadAudio() rejected
loadAudioResume ==
  /\ phase \in { "idle", "cleaned" }
  /\ loadResume
  /\ isLoadingAudio' = IF Head(microtasks).result.ok /\ isMounted THEN FALSE
                       ELSE isLoadingAudio
  /\ UNCHANGED << isPlaying, isMounted, shown, phase, players, app, camera >>

\* a render of the component with its current state
render ==
  /\ phase = "idle"
  /\ shown # [isPlaying |-> isPlaying, isLoadingAudio |-> isLoadingAudio]
  /\ shown' = [isPlaying |-> isPlaying, isLoadingAudio |-> isLoadingAudio]
  /\ UNCHANGED << base64Audio, player, pcm, isPlaying, isLoadingAudio,
                  isMounted, phase, players, app, camera >>

\* a click on the button, enabled unless the render showed isLoadingAudio
togglePlay ==
  /\ phase = "idle"
  /\ microtasks = << >>
  /\ ~shown.isLoadingAudio
  /\ IF shown.isPlaying
     THEN stop /\ isPlaying' = FALSE
     ELSE play /\ isPlaying' = TRUE
  /\ UNCHANGED << isLoadingAudio, isMounted, shown, phase, players, app, camera >>

\* the buffer of session n has been played to its end
displayExhaust(n) ==
  /\ phase \in { "idle", "cleaned" }
  /\ exhaust(n)
  /\ UNCHANGED << display, app, camera >>

\* the ended event of session n: the controller's handler calls the
\* registered callback, which is () => { if (isMounted) setIsPlaying(false) }
displayEnded(n) ==
  /\ phase \in { "idle", "cleaned" }
  /\ dispatchEnded(n)
  /\ isPlaying' = IF nodes[n].onended /\ onEndedCallback # "null" /\ isMounted
                  THEN FALSE ELSE isPlaying
  /\ UNCHANGED << isLoadingAudio, isMounted, shown, phase, players, app, camera >>

\* a cleanup that forgets to stop the controller
effectCleanup_flagOnly ==
  /\ phase = "idle"
  /\ isMounted' = FALSE
  /\ phase' = "cleaned"
  /\ last' = Step("cleanup", sourceNode, "undefined")
  /\ UNCHANGED << base64Audio, audioBuffer, sourceNode, onEndedCallback,
                  nodes, loads, microtasks, console, invoked, stopped,
                  superseded, atPlay, pcm, isPlaying, isLoadingAudio, shown,
                  players, app, camera >>

\* return () => { isMounted = false; audioPlayer.stop() }: run when the
\* component unmounts and when the payload has changed
effectCleanup ==
  /\ phase = "idle"
  /\ isMounted' = FALSE
  /\ stop
  /\ phase' = "cleaned"
  /\ UNCHANGED << isPlaying, isLoadingAudio, shown, players, app, camera >>

\* the render with a different payload: useMemo constructs the controller of
\* the new payload, the state of the component is kept, and the effect of the
\* new controller runs next
newAudioPlayer(payload) ==
  /\ phase = "cleaned"
  /\ players < MaxPlayers
  /\ payload # base64Audio
  /\ base64Audio' = payload
  /\ audioBuffer' = NullBuffer
  /\ sourceNode' = 0
  /\ onEndedCallback' = "null"
  /\ nodes' = << >>
  /\ loads' = << >>
  /\ microtasks' = << >>
  /\ console' = 0
  /\ invoked' = << >>
  /\ stopped' = { }
  /\ superseded' = { }
  /\ atPlay' = "null"
  /\ last' = [op |-> "new", pre |-> "Unloaded", active |-> 0, session |-> 0,
              ret |-> "none"]
  /\ isMounted' = TRUE
  /\ shown' = [isPlaying |-> isPlaying, isLoadingAudio |-> isLoadingAudio]
  /\ phase' = "effect"
  /\ players' = players + 1
  /\ UNCHANGED << pcm, isPlaying, isLoadingAudio, app, camera >>

NextDisplay ==
  \/ effectLoad
  \/ effectOnEnded
  \/ loadAudioResume
  \/ render
  \/ togglePlay
  \/ \E n \in 1..Len(nodes) : displayExhaust(n)
  \/ \E n \in 1..Len(nodes) : displayEnded(n)
  \/ effectCleanup
  \/ \E payload \in Payloads : newAudioPlayer(payload)

SpecDisplay == InitDisplay /\ [][NextDisplay]_vars

(***************************************************************************)
(* App and the generation service: handleImageUpload runs one upload       *)
(* through its three requests, suspended at every await; nothing ties a    *)
(* completion to the upload that App is showing.                           *)
(***************************************************************************)
UpperToLower ==
  ("U" :> "u") @@ ("N" :> "n") @@ ("K" :> "k") @@ ("O" :> "o") @@
  ("W" :> "w") @@ ("R" :> "r")

\* String.prototype.toLowerCase on the letters in use
toLowerCase(str) ==
  [i \in 1..Len(str) |-> IF str[i] \in DOMAIN UpperToLower
                          THEN UpperToLower[str[i]] ELSE str[i]]

RECURSIVE trimStart(_)
trimStart(str) ==
  IF str # << >> /\ Head(str) \in Whitespace THEN trimStart(Tail(str))
  ELSE str

RECURSIVE trimEnd(_)
trimEnd(str) ==
  IF str # << >> /\ str[Len(str)] \in Whitespace
  THEN trimEnd(SubSeq(str, 1, Len(str) - 1))
  ELSE str

\* String.prototype.trim
trim(str) == trimEnd(trimStart(str))

Unknown == << "u", "n", "k", "n", "o", "w", "n" >>

\* a check that compares with the spelling the prompt asks for only
landmarkRejected_asPrompted(landmarkName) ==
  landmarkName = << "U", "n", "k", "n", "o", "w", "n" >>

\* landmarkName.toLowerCase() === 'unknown' || landmarkName.length < 3
landmarkRejected(landmarkName) ==
  toLowerCase(landmarkName) = Unknown \/ Len(landmarkName) < 3

\* what the service may answer to the landmark request: the request fails,
\* the response carries no text, or it carries one of these texts
LandmarkTexts ==
  { << "U", "n", "k", "n", "o", "w", "n" >>,
    << "U", "N", "K", "N", "O", "W", "N" >>,
    << " ", "u", "n", "k", "n", "o", "w", "n", "\n" >>,
    << "a", "b" >>,
    << "a", "b", " " >>,
    << >>,
    << "R", "o", "m", "e" >> }

LandmarkResponses ==
  { [kind |-> "rejected", text |-> << >>], [kind |-> "noText", text |-> << >>] }
  \cup { [kind |-> "text", text |-> t] : t \in LandmarkTexts }

\* what the service may answer to the history request
HistoryResponses ==
  { [kind |-> "rejected", text |-> << >>], [kind |-> "noText", text |-> << >>],
    [kind |-> "text", text |-> << >>], [kind |-> "text", text |-> << "h" >>] }

\* what the service may answer to the narration request: inlineData.data
NarrationResponses ==
  { [kind |-> "rejected", text |-> << >>], [kind |-> "noText", text |-> << >>],
    [kind |-> "text", text |-> << >>],
    [kind |-> "text", text |-> << "A", "A", "=", "=" >>] }

\* handleImageUpload up to the await inside analyzeImageAndFetchHistory,
\* which waits for the file to be read
handleImageUpload(userPrompt) ==
  /\ Len(uploads) < MaxUploads
  /\ step' = "PROCESSING"
  /\ error' = "null"
  /\ landmarkInfo' = 0
  /\ imageUrl' = Len(uploads) + 1
  /\ processingMessage' = IF userPrompt
                          THEN "Step 1/3: Analyzing photo and your question..."
                          ELSE "Step 1/3: Identifying landmark..."
  /\ uploads' = Append(uploads, [pos |-> "read", answer |-> << >>,
                                 text |-> << >>, requests |-> << >>,
                                 got |-> << >>])
  /\ event' = [op |-> "upload", upload |-> Len(uploads) + 1]

\* the catch block of handleImageUpload for upload k
uploadFails(k, outcome) ==
  /\ uploads' = [uploads EXCEPT ![k] = [@ EXCEPT !.pos = "failed",
                                                 !.got = Append(@, outcome)]]
  /\ error' = "Analysis failed"
  /\ step' = "ERROR"
  /\ event' = [op |-> "complete", upload |-> k]
  /\ UNCHANGED << processingMessage, landmarkInfo, imageUrl, blobs >>

\* ImageUploader.handleFileChange and handleDrop: onImageUpload(file)
handleFileChange ==
  /\ step = "UPLOAD"
  /\ handleImageUpload(FALSE)
  /\ UNCHANGED << base64Audio, player, pcm, display, blobs >>

\* ImageUploader.handleCapture: canvas.toBlob(callback)
handleCapture ==
  /\ step = "UPLOAD"
  /\ blobs + Len(uploads) < MaxUploads
  /\ blobs' = blobs + 1
  /\ event' = [op |-> "capture", upload |-> 0]
  /\ UNCHANGED << base64Audio, player, pcm, display, step, processingMessage,
                  landmarkInfo, error, imageUrl, uploads >>

\* the callback of canvas.toBlob: if (blob) onImageUpload(file, transcript)
toBlobCallback(blob, transcript) ==
  /\ blobs > 0
  /\ blobs' = blobs - 1
  /\ IF blob
     THEN handleImageUpload(transcript)
     ELSE /\ event' = [op |-> "blob", upload |-> 0]
          /\ UNCHANGED << step, processingMessage, landmarkInfo, error,
                          imageUrl, uploads >>
  /\ UNCHANGED << base64Audio, player, pcm, display >>

\* analyzeImageAndFetchHistory after fileToGenerativePart: the landmark
\* request is issued
fileRead(k) ==
  /\ uploads[k].pos = "read"
  /\ uploads' = [uploads EXCEPT ![k] = [@ EXCEPT !.pos = "identify",
                                                 !.requests = << "identify" >>]]
  /\ event' = [op |-> "progress", upload |-> k]
  /\ UNCHANGED << base64Audio, player, pcm, display, step, processingMessage,
                  landmarkInfo, error, imageUrl, blobs >>

\* analyzeImageAndFetchHistory after the landmark request
landmarkResponse(k, r) ==
  /\ uploads[k].pos = "identify"
  /\ IF r.kind = "text" /\ ~landmarkRejected(trim(r.text))
     THEN /\ uploads' = [uploads EXCEPT ![k] =
                           [@ EXCEPT !.pos = "history", !.answer = r.text,
                                     !.requests = Append(@, "history"),
                                     !.got = Append(@, "ok")]]
          /\ event' = [op |-> "progress", upload |-> k]
          /\ UNCHANGED << step, processingMessage, landmarkInfo, error,
                          imageUrl, blobs >>
     ELSE uploadFails(k, IF r.kind = "text" THEN "unknown" ELSE "error")
  /\ UNCHANGED << base64Audio, player, pcm, display >>

\* analyzeImageAndFetchHistory after the history request, and
\* handleImageUpload up to its second await
historyResponse(k, r) ==
  /\ uploads[k].pos = "history"
  /\ IF r.kind = "text" /\ r.text # << >>
     THEN /\ uploads' = [uploads EXCEPT ![k] =
                           [@ EXCEPT !.pos = "narrate", !.text = r.text,
                                     !.requests = Append(@, "narrate"),
                                     !.got = Append(@, "ok")]]
          /\ processingMessage' = "Step 2/3: Generating narration..."
          /\ event' = [op |-> "progress", upload |-> k]
          /\ UNCHANGED << step, landmarkInfo, error, imageUrl, blobs >>
     ELSE uploadFails(k, IF r.kind = "rejected" THEN "error" ELSE "empty")
  /\ UNCHANGED << base64Audio, player, pcm, display >>

\* generateNarration after its request, and the rest of handleImageUpload
narrationResponse(k, r) ==
  /\ uploads[k].pos = "narrate"
  /\ IF r.kind = "text" /\ r.text # << >>
     THEN /\ uploads' = [uploads EXCEPT ![k] =
                           [@ EXCEPT !.pos = "done", !.got = Append(@, "ok")]]
          /\ processingMessage' = "Step 3/3: Finalizing..."
          /\ landmarkInfo' = k
          /\ step' = "RESULT"
          /\ event' = [op |-> "complete", upload |-> k]
          /\ UNCHANGED << error, imageUrl, blobs >>
     ELSE uploadFails(k, IF r.kind = "rejected" THEN "error" ELSE "empty")
  /\ UNCHANGED << base64Audio, player, pcm, display >>

\* the buttons of the RESULT and of the ERROR view
handleReset ==
  /\ \/ step = "ERROR"
     \/ step = "RESULT" /\ landmarkInfo # 0
  /\ step' = "UPLOAD"
  /\ error' = "null"
  /\ landmarkInfo' = 0
  /\ imageUrl' = 0
  /\ processingMessage' = ""
  /\ event' = [op |-> "reset", upload |-> 0]
  /\ UNCHANGED << base64Audio, player, pcm, display, uploads, blobs >>

InitApp ==
  /\ base64Audio = << >>
  /\ audioBuffer = NullBuffer
  /\ sourceNode = 0
  /\ onEndedCallback = "null"
  /\ nodes = << >>
  /\ loads = << >>
  /\ microtasks = << >>
  /\ console = 0
  /\ invoked = << >>
  /\ stopped = { }
  /\ superseded = { }
  /\ atPlay = "null"
  /\ pcmData = << >>
  /\ pcmChannels = 1
  /\ out = NoOutput
  /\ last = [op |-> "new", pre |-> "Unloaded", active |-> 0, session |-> 0,
             ret |-> "none"]
  /\ NoUi

NextApp ==
  \/ handleFileChange /\ UNCHANGED camera
  \/ handleCapture /\ UNCHANGED camera
  \/ \E blob \in BOOLEAN, transcript \in BOOLEAN :
       toBlobCallback(blob, transcript) /\ UNCHANGED camera
  \/ \E k \in 1..Len(uploads) : fileRead(k) /\ UNCHANGED camera
  \/ \E k \in 1..Len(uploads), r \in LandmarkResponses :
       landmarkResponse(k, r) /\ UNCHANGED camera
  \/ \E k \in 1..Len(uploads), r \in HistoryResponses :
       historyResponse(k, r) /\ UNCHANGED camera
  \/ \E k \in 1..Len(uploads), r \in NarrationResponses :
       narrationResponse(k, r) /\ UNCHANGED camera
  \/ handleReset /\ UNCHANGED camera

SpecApp == InitApp /\ [][NextApp]_vars

(***************************************************************************)
(* ImageUploader and the camera.  The effect on [mode, facingMode] closes  *)
(* over the stream of the render it was created in: setStream() does not   *)
(* run it again, so its cleanup and its startCamera() see the stream that  *)
(* was in state when mode or facingMode changed last.                      *)
(***************************************************************************)
\* stream.getTracks().forEach(track => track.stop()), behind if (stream)
stopTracks(ss, n) == IF n # 0 THEN [ss EXCEPT ![n].live = FALSE] ELSE ss

\* a fallback that goes back to the other camera instead of giving up
startCamera_fallback_other(currentFacingMode) ==
  IF currentFacingMode = "environment"
  THEN [state |-> "facingMode", value |-> "user"]
  ELSE [state |-> "facingMode", value |-> "environment"]

\* the fallback of startCamera: setFacingMode('user') or setMode('upload')
startCamera_fallback(currentFacingMode) ==
  IF currentFacingMode = "environment"
  THEN [state |-> "facingMode", value |-> "user"]
  ELSE [state |-> "mode", value |-> "upload"]

\* the effect run after a render that changed mode or facingMode: the
\* cleanup of the effect before it (which exists if that one ran in camera
\* mode), then the effect of the render with mode m and facingMode f, from
\* the attempts as and the count t
cameraEffect(pm, m, f, as, t) ==
  LET cleaned == IF pm = "camera" THEN stopTracks(streams, effectStream)
                 ELSE streams
  IN  /\ streams' = stopTracks(cleaned, stream)
      /\ IF m # "camera"
         THEN /\ stream' = 0
              /\ effectStream' = 0
              /\ attempts' = as
              /\ tries' = t
         ELSE /\ Len(as) < MaxAttempts
              /\ UNCHANGED stream
              /\ effectStream' = stream
              /\ attempts' = Append(as, [facing |-> f, state |-> "pending"])
              /\ tries' = [entry |-> t.entry + 1, press |-> t.press + 1]

\* the component after its first render and the first run of the effect
InitCameraState ==
  /\ mode = "camera"
  /\ facingMode = "environment"
  /\ cameraError = "null"
  /\ stream = 0
  /\ effectStream = 0
  /\ uploaderMounted = TRUE
  /\ streams = << >>
  /\ attempts = << [facing |-> "environment", state |-> "pending"] >>
  /\ tries = [entry |-> 1, press |-> 1]

\* startCamera after its await: getUserMedia handed out a stream
getUserMediaResolves(a) ==
  /\ attempts[a].state = "pending"
  /\ Len(streams) < MaxStreams
  /\ attempts' = [attempts EXCEPT ![a].state = "resolved"]
  /\ streams' = Append(streams, [live |-> TRUE, facing |-> attempts[a].facing])
  /\ IF uploaderMounted
     THEN /\ stream' = Len(streams) + 1
          /\ cameraError' = "null"
     ELSE UNCHANGED << stream, cameraError >>
  /\ UNCHANGED << mode, facingMode, effectStream, uploaderMounted, tries >>

\* startCamera in its catch block: getUserMedia was rejected
getUserMediaRejects(a) ==
  /\ attempts[a].state = "pending"
  /\ LET failed == [attempts EXCEPT ![a].state = "failed"]
         set == startCamera_fallback(attempts[a].facing)
         m == IF set.state = "mode" THEN set.value ELSE mode
         f == IF set.state = "facingMode" THEN set.value ELSE facingMode
     IN  IF ~uploaderMounted
         THEN /\ attempts' = failed
              /\ UNCHANGED << mode, facingMode, cameraError, stream,
                              effectStream, streams, tries >>
         ELSE /\ cameraError' = "error"
              /\ mode' = m
              /\ facingMode' = f
              /\ IF m # mode \/ f # facingMode
                 THEN cameraEffect(mode, m, f, failed, tries)
                 ELSE /\ attempts' = failed
                      /\ UNCHANGED << stream, effectStream, streams, tries >>
  /\ UNCHANGED uploaderMounted

\* the Switch camera button, disabled while cameraError is set
handleSwitchCamera ==
  /\ uploaderMounted /\ mode = "camera" /\ cameraError = "null"
  /\ facingMode' = IF facingMode = "environment" THEN "user"
                   ELSE "environment"
  /\ cameraEffect(mode, mode, facingMode', attempts,
                  [entry |-> tries.entry, press |-> 0])
  /\ UNCHANGED << mode, cameraError, uploaderMounted >>

\* the Close camera button: setMode('upload')
closeCamera ==
  /\ uploaderMounted /\ mode = "camera"
  /\ mode' = "upload"
  /\ cameraEffect(mode, "upload", facingMode, attempts, tries)
  /\ UNCHANGED << facingMode, cameraError, uploaderMounted >>

\* the Use Camera button: setMode('camera')
useCamera ==
  /\ uploaderMounted /\ mode = "upload"
  /\ mode' = "camera"
  /\ cameraEffect(mode, "camera", facingMode, attempts,
                  [entry |-> 0, press |-> 0])
  /\ UNCHANGED << facingMode, cameraError, uploaderMounted >>

\* App renders no ImageUploader once the step has left UPLOAD: the cleanup of
\* the current effect runs
unmountUploader ==
  /\ uploaderMounted' = FALSE
  /\ streams' = IF mode = "camera" THEN stopTracks(streams, effectStream)
                ELSE streams
  /\ UNCHANGED << mode, facingMode, cameraError, stream, effectStream,
                  attempts, tries >>

\* the Capture photo button, disabled while cameraError is set
cameraCapture ==
  /\ uploaderMounted /\ mode = "camera" /\ cameraError = "null"
  /\ handleCapture
  /\ UNCHANGED camera

\* the toBlob callback, which may come after the component has unmounted
cameraToBlob(blob, transcript) ==
  /\ toBlobCallback(blob, transcript)
  /\ IF blob /\ uploaderMounted THEN unmountUploader ELSE UNCHANGED camera

\* a file chosen or dropped in upload mode
cameraFileChange ==
  /\ uploaderMounted /\ mode = "upload"
  /\ handleFileChange
  /\ unmountUploader

InitCamera ==
  /\ base64Audio = << >>
  /\ audioBuffer = NullBuffer
  /\ sourceNode = 0
  /\ onEndedCallback = "null"
  /\ nodes = << >>
  /\ loads = << >>
  /\ microtasks = << >>
  /\ console = 0
  /\ invoked = << >>
  /\ stopped = { }
  /\ superseded = { }
  /\ atPlay = "null"
  /\ pcmData = << >>
  /\ pcmChannels = 1
  /\ out = NoOutput
  /\ last = [op |-> "new", pre |-> "Unloaded", active |-> 0, session |-> 0,
             ret |-> "none"]
  /\ NoDisplay
  /\ InitAppState
  /\ InitCameraState

NextCamera ==
  \/ \E a \in 1..Len(attempts) :
       getUserMediaResolves(a)
       /\ UNCHANGED << base64Audio, player, pcm, display, app >>
  \/ \E a \in 1..Len(attempts) :
       getUserMediaRejects(a)
       /\ UNCHANGED << base64Audio, player, pcm, display, app >>
  \/ handleSwitchCamera /\ UNCHANGED << base64Audio, player, pcm, display, app >>
  \/ closeCamera /\ UNCHANGED << base64Audio, player, pcm, display, app >>
  \/ useCamera /\ UNCHANGED << base64Audio, player, pcm, display, app >>
  \/ cameraCapture
  \/ \E blob \in BOOLEAN, transcript \in BOOLEAN : cameraToBlob(blob, transcript)
  \/ cameraFileChange

SpecCamera == InitCamera /\ [][NextCamera]_vars

(***************************************************************************)
(* Properties of the playback controller.                                  *)
(***************************************************************************)
Sessions == 1..Len(nodes)

\* the number of times the completion callback was invoked for session n
CallsFor(n) == Cardinality({ i \in 1..Len(invoked) : invoked[i].session = n })

\* the sessions started on the output sink and neither stopped nor finished
Alive == { n \in Sessions : nodes[n].playback = "playing" }

\* C1: a session that stop() terminated never has the completion callback
\* invoked for it, and right after stop() on a Playing controller the
\* controller is Loaded: the buffer is present and there is no session.
C1_StopIsSilent ==
  /\ \A n \in stopped : CallsFor(n) = 0
  /\ (last.op = "stop" /\ last.pre = "Playing") =>
       /\ State = "Loaded"
       /\ audioBuffer # NullBuffer /\ sourceNode = 0
       /\ last.active \in stopped
       /\ nodes[last.active].playback # "playing"

\* a stopped session whose ended event has been delivered while a callback
\* was registered
C1_Witness ==
  \E n \in stopped :
    /\ nodes[n].playback = "stopped"
    /\ nodes[n].ended = "dispatched"
    /\ onEndedCallback # "null"
    /\ State = "Loaded"

\* C2: play() on a Playing controller never lets the callback be invoked
\* for the session it replaces, at the call or later, and leaves the
\* controller Playing with a new session distinct from the previous one.
C2_SupersedeIsSilent ==
  /\ \A n \in superseded : CallsFor(n) = 0
  /\ (last.op = "play" /\ last.pre = "Playing") =>
       /\ State = "Playing"
       /\ sourceNode = last.session /\ sourceNode # last.active
       /\ last.active \in superseded
       /\ nodes[sourceNode].playback = "playing"

\* a replaced session whose ended event has been delivered while a callback
\* was registered and the new session is still the active one
C2_Witness ==
  \E n \in superseded :
    /\ nodes[n].ended = "dispatched"
    /\ onEndedCallback # "null"
    /\ sourceNode = n + 1
    /\ State = "Playing"

\* C3: when the ended event of a session that was neither stopped nor
\* replaced is delivered, the controller was Playing that session, is Loaded
\* with no session afterwards, and the registered callback has been invoked
\* for the session exactly once: the one invocation is the last one made,
\* with the handler registered at that moment; and no session ever has the
\* callback invoked twice.
C3_NaturalCompletion ==
  /\ \A n \in Sessions : CallsFor(n) <= 1
  /\ (last.op = "ended" /\ last.session \notin stopped \cup superseded) =>
       /\ last.pre = "Playing" /\ last.active = last.session
       /\ State = "Loaded" /\ sourceNode = 0
       /\ nodes[last.session].playback = "finished"
       /\ onEndedCallback # "null" =>
            /\ CallsFor(last.session) = 1
            /\ invoked[Len(invoked)] =
                 [session |-> last.session, handler |-> onEndedCallback]
       /\ onEndedCallback = "null" => CallsFor(last.session) = 0

\* a natural completion has just been delivered with a callback registered
C3_Witness ==
  /\ last.op = "ended"
  /\ last.session \notin stopped \cup superseded
  /\ onEndedCallback # "null"
  /\ CallsFor(last.session) = 1

\* C4: the ended event of a session that is not the active one changes
\* neither the active session nor any other node, the buffer or the
\* callback slot, and invokes nothing; the callback is invoked only by the
\* ended event of the session that is active when the event is delivered.
C4_StaleNotificationIgnored ==
  [][ /\ (last'.op = "ended"
          /\ last'.session # sourceNode) =>
          /\ UNCHANGED << sourceNode, invoked, audioBuffer, onEndedCallback >>
          /\ \A m \in Sessions : m # last'.session => nodes'[m] = nodes[m]
      /\ invoked' # invoked =>
          (last'.op = "ended" /\ last'.session = sourceNode) ]_vars

\* the ended event of a session that finished naturally and was then stopped
\* or replaced has been delivered while a newer session is active
C4_Witness ==
  /\ last.op = "ended"
  /\ last.active # 0 /\ last.session # last.active
  /\ nodes[last.session].playback = "finished"
  /\ nodes[last.active].playback = "playing"
  /\ onEndedCallback # "null"

\* C5: at most one session is alive on the output sink, and a session
\* that is alive is the controller's active one.
C5_AtMostOneAlive ==
  /\ Cardinality(Alive) <= 1
  /\ \A n \in Alive : n = sourceNode

\* a session is alive after the one before it was replaced
C5_Witness ==
  /\ Len(nodes) >= 2
  /\ Alive = { Len(nodes) }
  /\ superseded # { }

\* C6 as stated: play() on an Unloaded controller hands a NotLoadedError to
\* its caller, creates no session, fires no callback and stays Unloaded.
C6_PlayUnloadedFails ==
  (last.op = "play" /\ last.pre = "Unloaded") =>
    /\ last.ret = "NotLoadedError"
    /\ State = "Unloaded" /\ sourceNode = 0
    /\ nodes = << >> /\ invoked = << >>

\* C6 amended: play() on an Unloaded controller writes one line to the error
\* console and returns normally with no value; it creates no session, fires
\* no callback, and leaves the controller Unloaded and everything else as
\* it was.
C6_PlayUnloadedLogs ==
  [][ (last'.op = "play" /\ State = "Unloaded") =>
        /\ last'.ret = "undefined"
        /\ console' = console + 1
        /\ State' = "Unloaded"
        /\ UNCHANGED << audioBuffer, sourceNode, nodes, invoked,
                        onEndedCallback, loads, microtasks >> ]_vars

\* play() has just been refused while the first load() is still suspended
C6_Witness ==
  /\ last.op = "play" /\ last.pre = "Unloaded"
  /\ console >= 1
  /\ microtasks # << >>
  /\ onEndedCallback # "null"

\* C7: stop() on an Unloaded or Loaded controller changes nothing: not the
\* buffer, the absent session, the registered callback, the nodes, nor the
\* callback invocations made so far.
C7_StopIdleNoOp ==
  [][ (last'.op = "stop"
       /\ State \in { "Unloaded", "Loaded" }) =>
        /\ State' = State
        /\ UNCHANGED << audioBuffer, sourceNode, onEndedCallback, nodes,
                        invoked, loads, microtasks, console >> ]_vars

\* stop() has just been called on a Loaded controller that has a callback
\* registered and had a session before
C7_Witness ==
  /\ last.op = "stop" /\ last.pre = "Loaded"
  /\ Len(nodes) >= 1
  /\ onEndedCallback # "null"

\* C8: load() on a Loaded or Playing controller builds no buffer, queues no
\* continuation, leaves the cached buffer, the active session and the nodes
\* as they were, fires no callback, and its promise is already resolved.
C8_LoadIdempotent ==
  [][ (last'.op = "load"
       /\ State \in { "Loaded", "Playing" }) =>
        /\ Decoded' = Decoded
        /\ loads'[Len(loads')].outcome = "resolved"
        /\ State' = State
        /\ UNCHANGED << audioBuffer, sourceNode, onEndedCallback, nodes,
                        invoked, microtasks, console >> ]_vars

\* load() has just been called while a session was playing
C8_Witness ==
  /\ last.op = "load" /\ last.pre = "Playing"
  /\ Len(loads) >= 2
  /\ sourceNode # 0 /\ nodes[sourceNode].playback = "playing"

\* C9 as stated: over the lifetime of the controller at most one buffer is
\* built and the cached buffer is the first one built, also when load() is
\* called while an earlier load() is still suspended.
C9_DecodedAtMostOnce ==
  /\ Decoded <= 1
  /\ audioBuffer.id <= 1

\* the payloads on which decode() or decodeAudioData() fails
PayloadFails ==
  LET decoded == decode(base64Audio)
  IN  ~decoded.ok \/ ~decodeAudioData(decoded.bytes, 1, 1).ok

\* C10: when decoding or conversion of the payload fails, every load()
\* promise is rejected with the error once its continuation has run and none
\* is resolved, no buffer is cached and no session exists, a play() is
\* refused as not loaded, and a later load() runs the decode again instead
\* of returning early.
C10_FailedLoadStaysUnloaded ==
  PayloadFails =>
    /\ State = "Unloaded" /\ audioBuffer = NullBuffer
    /\ sourceNode = 0 /\ nodes = << >> /\ invoked = << >>
    /\ \A i \in 1..Len(loads) :
         /\ loads[i].outcome # "resolved"
         /\ loads[i].buffer = 0
         /\ loads[i].outcome = "rejected" =>
              loads[i].error \in { "InvalidCharacterError", "RangeError",
                                   "NotSupportedError" }
         /\ loads[i].outcome = "pending" =>
              \E k \in 1..Len(microtasks) :
                microtasks[k].load = i /\ ~microtasks[k].result.ok
    /\ last.op = "play" => (last.pre = "Unloaded" /\ console >= 1)

\* two load() calls on a payload that is not a whole number of samples have
\* both been rejected, with a refused play() in between
C10_Witness ==
  /\ PayloadFails
  /\ Len(loads) = 2
  /\ loads[1].outcome = "rejected" /\ loads[2].outcome = "rejected"
  /\ loads[1].error = "RangeError"
  /\ console >= 1

\* C11: every invocation of the callback calls the handler that is in the
\* callback slot when the ended event is delivered, whatever handler was
\* registered when play() ran; onEnded() puts its argument in the slot and
\* touches neither the session in flight nor anything else.
C11_CurrentHandlerFires ==
  [][ /\ invoked' # invoked =>
          /\ onEndedCallback # "null"
          /\ invoked' = Append(invoked, [session |-> last'.session,
                                         handler |-> onEndedCallback])
          /\ onEndedCallback' = onEndedCallback
      /\ last'.op = "onEnded" =>
          /\ onEndedCallback' \in Handlers
          /\ UNCHANGED << audioBuffer, sourceNode, nodes, invoked, loads,
                          microtasks, console >> ]_vars

\* a session started with h1 registered has completed naturally after h2
\* replaced h1, and h2 is the handler that was invoked for it
C11_Witness ==
  /\ last.op = "ended"
  /\ last.session = Len(nodes)
  /\ last.session \notin stopped \cup superseded
  /\ atPlay = "h1" /\ onEndedCallback = "h2"
  /\ invoked # << >>
  /\ invoked[Len(invoked)] = [session |-> last.session, handler |-> "h2"]
  /\ \A i \in 1..Len(invoked) :
       invoked[i].session = last.session => invoked[i].handler # "h1"

\* the sessions that played to the end and whose ended event was delivered
\* to the handler
NaturallyCompleted ==
  { n \in Sessions : /\ nodes[n].playback = "finished"
                     /\ nodes[n].ended = "dispatched"
                     /\ n \notin stopped \cup superseded }

\* C12: the callback is invoked only by the delivery of the ended event of
\* a session that played to its end and was neither stopped nor replaced;
\* no load(), play(), stop() or onEnded() step, failed or not, invokes it,
\* and the invocations never outnumber the naturally completed sessions.
C12_OnlyNaturalCompletionFires ==
  [][ /\ invoked' # invoked =>
          /\ last'.op = "ended"
          /\ Len(invoked') = Len(invoked) + 1
          /\ nodes[last'.session].playback = "finished"
          /\ last'.session \notin stopped \cup superseded
      /\ last'.op \in { "load", "loadResume", "play", "stop", "onEnded",
                         "exhaust" } => invoked' = invoked
      /\ Len(invoked') <= Cardinality(NaturallyCompleted') ]_vars

\* after a refused play(), one natural completion that invoked the callback
\* and one stop() of a playing session, every ended event delivered
C12_Witness ==
  /\ console >= 1
  /\ Len(invoked) = 1 /\ Cardinality(NaturallyCompleted) = 1
  /\ \E n \in stopped : nodes[n].playback = "stopped"
  /\ \A n \in Sessions : nodes[n].ended = "dispatched"
  /\ onEndedCallback # "null"

\* C13: a cached buffer is never dropped; play(), stop(), the end of
\* playback and its notification build no buffer and leave the cached one
\* in place; and play() on a Loaded or Playing controller leaves it Playing
\* with a new playing node bound to the cached buffer.
C13_LoadedStaysReplayable ==
  [][ /\ audioBuffer # NullBuffer => audioBuffer' # NullBuffer
      /\ last'.op \in { "play", "stop", "exhaust", "ended" } =>
          (audioBuffer' = audioBuffer /\ Decoded' = Decoded)
      /\ (last'.op = "play" /\ State # "Unloaded") =>
          /\ State' = "Playing"
          /\ sourceNode' = Len(nodes) + 1
          /\ nodes'[sourceNode'].buffer = audioBuffer.id
          /\ nodes'[sourceNode'].playback = "playing" ]_vars

\* play() has just started a second session on the one buffer ever built,
\* after the first session completed naturally and invoked the callback
C13_Witness ==
  /\ last.op = "play" /\ last.pre = "Loaded"
  /\ State = "Playing"
  /\ Len(nodes) = 2 /\ 1 \in NaturallyCompleted
  /\ CallsFor(1) = 1
  /\ Decoded = 1
  /\ nodes[2].buffer = audioBuffer.id /\ nodes[1].buffer = audioBuffer.id

(***************************************************************************)
(* Properties of the converter and of the decoder.                         *)
(***************************************************************************)
\* the value of two bytes read as a signed little-endian 16-bit integer
Signed16(b0, b1) == ((b0 + 256 * b1 + 32768) % 65536) - 32768

\* the k-th 2-byte group of the payload (k from 0) as such an integer
SampleAt(k) == Signed16(pcmData[2*k + 1], pcmData[2*k + 2])

Converted == out.fn = "decodeAudioData"

\* C14 as stated: the converter fails for every byte sequence whose length
\* is not a multiple of 2 x channels, and builds no buffer from it.
C14_MisalignedRejected ==
  (Converted /\ Len(pcmData) % (2 * pcmChannels) # 0) =>
    (~out.value.ok /\ out.value.buffer = NullBuffer)

C16_LittleEndianSamples ==
  (Converted /\ pcmChannels = 1 /\ out.value.ok) =>
    /\ out.value.buffer.length = Len(pcmData) \div 2
    /\ \A i \in 1..out.value.buffer.length :
         LET v == out.value.buffer.channelData[1][i]
             u == pcmData[2*i - 1] + 256 * pcmData[2*i]
         IN  v.num * 32768 = (IF u >= 32768 THEN u - 65536 ELSE u) * v.den
    /\ pcmData = ExamplePayload =>
         /\ out.value.buffer.length = 2
         /\ out.value.buffer.channelData[1][1].num = -32768
         /\ out.value.buffer.channelData[1][2].num = 32767

\* the payload 00 80 FF 7F has been converted in mono
C16_Witness ==
  /\ Converted /\ out.value.ok
  /\ pcmData = ExamplePayload /\ pcmChannels = 1
  /\ Len(out.value.buffer.channelData[1]) = 2

\* C17: every stored value is the sample over 32768 exactly (nothing is
\* clipped), so it lies in [-1, 1]; the sample -32768 is stored as exactly
\* -1 and the sample 32767 as a value strictly below 1.
C17_NormalizedRange ==
  (Converted /\ out.value.ok) =>
    \A c \in 1..pcmChannels : \A i \in 1..out.value.buffer.length :
      LET v == out.value.buffer.channelData[c][i]
          sample == SampleAt((i - 1) * pcmChannels + (c - 1))
      IN  /\ v.den > 0
          /\ -v.den <= v.num /\ v.num <= v.den
          /\ v.num * 32768 = sample * v.den
          /\ sample = -32768 => v.num = -v.den
          /\ sample = 32767 => v.num < v.den

\* the two extreme samples have been converted
C17_Witness ==
  /\ Converted /\ out.value.ok
  /\ pcmData = ExamplePayload
  /\ SampleAt(0) = -32768 /\ SampleAt(1) = 32767

\* C18 as stated: position i of channel c holds the normalized interleaved
\* sample i*channels + c, and every interleaved sample of the payload is
\* stored in exactly one (channel, position).
C18_Deinterleaved ==
  (Converted /\ out.value.ok) =>
    /\ \A c \in 1..pcmChannels : \A i \in 1..out.value.buffer.length :
         out.value.buffer.channelData[c][i] =
           [num |-> SampleAt((i - 1) * pcmChannels + (c - 1)), den |-> 32768]
    /\ \A k \in 0..((Len(pcmData) \div 2) - 1) :
         Cardinality({ p \in (1..pcmChannels) \X (1..out.value.buffer.length) :
                        (p[2] - 1) * pcmChannels + (p[1] - 1) = k }) = 1

\* an encoded text over the alphabet, a multiple of four characters long,
\* with at most two "=" and those at the very end
ValidEncoded(t) ==
  /\ Len(t) % 4 = 0
  /\ \A i \in 1..Len(t) :
       \/ t[i] \in B64Chars
       \/ /\ t[i] = "="
          /\ i >= Len(t) - 1
          /\ i = Len(t) - 1 => t[Len(t)] = "="

\* a valid text whose last character before the padding carries no bits
\* beyond the bytes it encodes: the texts an encoder produces
Canonical(t) ==
  /\ ValidEncoded(t)
  /\ (Len(t) > 0 /\ t[Len(t)] = "=") =>
       IF t[Len(t) - 1] = "="
       THEN B64Index(t[Len(t) - 2]) % 16 = 0
       ELSE B64Index(t[Len(t) - 1]) % 4 = 0

\* C19 as stated: decode(encode(b)) = b for every byte sequence b, and
\* encode(decode(t)) = t for every valid encoded text t.
C19_RoundTrip ==
  /\ out.fn = "decode.encode" =>
       (out.value.ok /\ out.value.bytes = pcmData)
  /\ (out.fn = "encode.decode" /\ ValidEncoded(base64Audio)) =>
       (out.value.ok /\ out.value.text = base64Audio)

\* C19 amended: decode(encode(b)) = b for every byte sequence b, and
\* encode(decode(t)) = t for every canonical encoded text t, one whose
\* unused low bits in the last character before the padding are zero.
C19_RoundTripCanonical ==
  /\ out.fn = "decode.encode" =>
       (out.value.ok /\ out.value.bytes = pcmData)
  /\ (out.fn = "encode.decode" /\ Canonical(base64Audio)) =>
       (out.value.ok /\ out.value.text = base64Audio)

\* a padded canonical text has been decoded and encoded back
C19_Witness ==
  /\ out.fn = "encode.decode"
  /\ base64Audio = << "A", "Q", "=", "=" >>
  /\ out.value.text = base64Audio

\* the text without its ASCII whitespace
Stripped == StripWhitespace(base64Audio)

\* a character that is neither of the alphabet, nor "=", nor whitespace
BadChar == \E i \in 1..Len(base64Audio) :
             base64Audio[i] \notin B64Chars \cup Whitespace \cup { "=" }

\* an "=" anywhere but in the last two places of a text that is a multiple
\* of four characters long, or followed by another character
MisplacedPadding ==
  \E i \in 1..Len(Stripped) :
    /\ Stripped[i] = "="
    /\ \/ Len(Stripped) % 4 # 0
       \/ i < Len(Stripped) - 1
       \/ (i = Len(Stripped) - 1 /\ Stripped[Len(Stripped)] # "=")

\* C20 as stated: decode fails on a character outside the alphabet, on a
\* misplaced or excess "=" and on the empty text; load() is then rejected
\* with that decode error, no buffer is produced and the controller stays
\* Unloaded.
C20_DecodeRejects ==
  (BadChar \/ MisplacedPadding \/ base64Audio = << >>) =>
    /\ out.fn = "decode" => ~out.value.ok
    /\ audioBuffer = NullBuffer /\ State = "Unloaded"
    /\ \A i \in 1..Len(loads) :
         /\ loads[i].outcome # "resolved"
         /\ loads[i].outcome = "rejected" =>
              loads[i].error = "InvalidCharacterError"

(***************************************************************************)
(* Properties of ResultDisplay.                                            *)
(***************************************************************************)
\* C21: the step that discards the controller detaches and stops the active
\* session, and in every state from then on no session of the controller is
\* alive, the controller holds no session and its completion callback is not
\* invoked again, also when load() resumes after the discard.
C21_DiscardReleases ==
  [][phase' = "cleaned" =>
       /\ Alive' = { }
       /\ sourceNode' = 0
       /\ invoked' = invoked
       /\ (phase = "idle" /\ sourceNode # 0) =>
            /\ ~nodes'[sourceNode].onended
            /\ nodes'[sourceNode].playback # "playing"
            /\ sourceNode \in stopped']_vars

\* the controller was discarded while a session played, and the ended event
\* of that session has been dispatched since
C21_Witness ==
  /\ phase = "cleaned"
  /\ \E n \in stopped : nodes[n].ended = "dispatched"
  /\ invoked = << >>

\* C22 as stated: once the effect has run, isPlaying is true exactly when the
\* controller has an active session, the button is enabled only when load()
\* has completed, and play() is never issued to an Unloaded controller.
C22_FlagMatchesSession ==
  /\ phase = "idle" => (isPlaying <=> sourceNode # 0)
  /\ (phase = "idle" /\ ~shown.isLoadingAudio) => State # "Unloaded"
  /\ console = 0

\* the same for the controller of the first payload only
C22_FirstPayloadOnly == players = 1 => C22_FlagMatchesSession

(***************************************************************************)
(* Properties of App and of the generation service.                        *)
(***************************************************************************)
\* C23 as stated: the step leaves UPLOAD only to PROCESSING, leaves
\* PROCESSING only to RESULT with landmarkInfo set or to ERROR with error
\* set, and returns to UPLOAD only by handleReset; and the completion of an
\* upload changes nothing of the step, the result or the error unless the
\* step is PROCESSING and that upload is the one started last.
C23_StepDiscipline ==
  [][/\ step' # step =>
          \/ step = "UPLOAD" /\ step' = "PROCESSING"
          \/ step = "PROCESSING" /\ step' = "RESULT" /\ landmarkInfo' # 0
          \/ step = "PROCESSING" /\ step' = "ERROR" /\ error' # "null"
          \/ step \in { "RESULT", "ERROR" } /\ step' = "UPLOAD"
             /\ event'.op = "reset"
     /\ (event'.op = "complete"
         /\ ~(step = "PROCESSING" /\ event'.upload = Len(uploads))) =>
          UNCHANGED << step, landmarkInfo, error >>]_vars

\* the requests an upload issues, in their order
RequestOrder == << "identify", "history", "narrate" >>

\* C24: every upload has issued a prefix of the requests identification,
\* history, narration, each one after the one before it was answered
\* successfully; an upload whose landmark answer is 'unknown' in any case
\* or shorter than 3 characters has issued neither the history nor the
\* narration request; an upload whose history text is empty has not issued
\* the narration request; and the step in which an upload fails sets the
\* step to ERROR, after which that upload issues no request.
C24_RequestsInOrder ==
  /\ [](\A k \in 1..Len(uploads) :
         LET u == uploads[k]
         IN  /\ Len(u.requests) <= 3
             /\ u.requests = SubSeq(RequestOrder, 1, Len(u.requests))
             /\ \A i \in 2..Len(u.requests) : u.got[i - 1] = "ok"
             /\ Len(u.requests) >= 2 =>
                  /\ toLowerCase(u.answer) # Unknown
                  /\ Len(u.answer) >= 3
             /\ Len(u.requests) = 3 => u.text # << >>
             /\ (u.got # << >> /\ u.got[Len(u.got)] # "ok") =>
                  (u.pos = "failed" /\ Len(u.requests) = Len(u.got)))
  /\ [][\A k \in 1..Len(uploads) :
          /\ (uploads[k].pos # "failed" /\ uploads'[k].pos = "failed") =>
               (step' = "ERROR" /\ error' # "null")
          /\ uploads[k].pos = "failed" => uploads'[k] = uploads[k]]_vars

\* one upload was refused for an answer of 'unknown' after its first request
\* and another went through all three requests
C24_Witness ==
  \E j, k \in 1..Len(uploads) :
    /\ uploads[j].pos = "failed" /\ uploads[j].got = << "unknown" >>
    /\ uploads[j].requests = << "identify" >>
    /\ uploads[k].pos = "done" /\ uploads[k].requests = RequestOrder

(***************************************************************************)
(* Properties of ImageUploader.                                            *)
(***************************************************************************)
\* no stream has been handed out: every getUserMedia call so far has failed
\* or is still pending
CameraKeepsFailing == streams = << >>

Pending == { a \in 1..Len(attempts) : attempts[a].state = "pending" }

\* the fallback: a failed start of the environment camera sets facingMode to
\* user, and starts the user camera if that changed facingMode in camera
\* mode; a failed start of the user camera sets the mode to upload
FallbackStep ==
  \A a \in 1..Len(attempts) :
    (uploaderMounted /\ attempts[a].state = "pending"
     /\ attempts'[a].state = "failed") =>
      IF attempts[a].facing = "environment"
      THEN /\ facingMode' = "user"
           /\ (facingMode = "environment" /\ mode = "camera") =>
                /\ Len(attempts') = Len(attempts) + 1
                /\ attempts'[Len(attempts')] =
                     [facing |-> "user", state |-> "pending"]
      ELSE /\ mode' = "upload"
           /\ Len(attempts') = Len(attempts)

\* C25 as stated: the fallback goes from the environment camera to the user
\* camera and from there to upload mode, and while the camera keeps failing
\* at most two starts are attempted per entry into camera mode.
C25_TwoAttemptsPerEntry ==
  /\ [](CameraKeepsFailing => tries.entry <= 2)
  /\ [][FallbackStep]_vars

\* C25 amended: the fallback goes from the environment camera to the user
\* camera and from there to upload mode; while the camera keeps failing at
\* most two starts are attempted per entry into camera mode or press of
\* Switch camera, and the component is in camera mode only while a start is
\* pending, so that it is in upload mode once every start has failed.
C25_TwoAttemptsPerPress ==
  /\ [](CameraKeepsFailing =>
         /\ tries.press <= 2
         /\ (uploaderMounted /\ mode = "camera") => Pending # { })
  /\ [][FallbackStep]_vars

\* both cameras have failed in one entry and the component is in upload mode
C25_Witness ==
  /\ CameraKeepsFailing
  /\ uploaderMounted /\ mode = "upload"
  /\ tries.entry = 2 /\ tries.press = 2
  /\ Len(attempts) = 2
  /\ attempts[1] = [facing |-> "environment", state |-> "failed"]
  /\ attempts[2] = [facing |-> "user", state |-> "failed"]

\* C26 as stated: a stream whose tracks are live is the stream in the state
\* of a mounted component in camera mode, started for the current
\* facingMode: leaving camera mode, switching the camera and unmounting
\* leave no earlier stream live.
C26_StreamsReleased ==
  \A n \in 1..Len(streams) :
    streams[n].live =>
      /\ uploaderMounted
      /\ mode = "camera"
      /\ stream = n

====
